---- MODULE Spec2Model ----
(***************************************************************************)
(* A model of the watchexec runtime supervisor, lib/src/watchexec.rs:      *)
(* Watchexec::new, ::reconfigure, ::send_event, ::main, flatten and        *)
(* error_hook, with the tokio primitives they use (Notify, AtomicTake,     *)
(* watch, mpsc, spawn, try_join!).                                         *)
(***************************************************************************)
EXTENDS Integers, Sequences, FiniteSets, TLC

(***************************************************************************)
(* Bounds of the model.                                                    *)
(***************************************************************************)
\* number of Watchexec::main invocations (sequential or concurrent)
MaxMainCalls == 3
\* number of RuntimeErrors the workers send on the error bus
MaxErrors == 3
\* init.error_channel_size
ErrorChannelSize == 2
\* init.event_channel_size
EventChannelSize == 1
\* number of distinct RuntimeConfig values besides the default
MaxConfig == 1
\* number of Watchexec::reconfigure invocations
MaxReconf == 2
\* number of send_event invocations of each producer
MaxSends == 2

MainCalls == 1 .. MaxMainCalls

(***************************************************************************)
(* The four subtasks, in the order try_join! lists them.                   *)
(***************************************************************************)
Workers == {"action", "fs", "signal"}
Subtasks == {"action", "error_hook", "fs", "signal"}

(***************************************************************************)
(* Result<(), CriticalError> values.  `of` names the subtask an error      *)
(* comes from, so that errors of different subtasks differ.                *)
(***************************************************************************)
OkRes == [kind |-> "Ok", of |-> "-"]
Crit(k, w) == [kind |-> k, of |-> w]
ExitErr == Crit("Exit", "error_hook")

\* the output of a subtask's JoinHandle: Ok(task result) or Err(JoinError)
JoinOk(r) == [join |-> "Ok", val |-> r]
JoinErr(w) == [join |-> "JoinError", val |-> Crit("Panic", w)]
NoJr == [join |-> "-", val |-> OkRes]

Unspawned == [st |-> "unspawned", jr |-> NoJr]
Running == [st |-> "running", jr |-> NoJr]
Done(jr) == [st |-> "done", jr |-> jr]

VARIABLES
    handle,     \* the AtomicTake cell: "some" (holds the JoinHandle) or "none"
    permit,     \* Notify: a stored notify_one permit
    coordPc,    \* the coordination task: spawned, armed, released, running, done
    result,     \* the output of the coordination task, NoJr while it runs
    joinFrom,   \* the subtask whose completion ended try_join!, "-" if none
    sub,        \* the four spawned subtasks
    mainPc,     \* each Watchexec::main invocation
    erBuf,      \* the error bus (mpsc::channel(init.error_channel_size))
    erSent,     \* every RuntimeError a worker's send enqueued, in bus order
    erRecvd,    \* every RuntimeError errors.recv() returned, in order
    handled,    \* every handler.handle invocation: argument and outcome
    initCfg,    \* the RuntimeConfig given to Watchexec::new
    acVal,      \* the value held by the action config channel (action_watch)
    fsVal,      \* the value held by the fs config channel (fs_watch)
    rc,         \* each Watchexec::reconfigure invocation
    rcLast,     \* the reconfigure invocations that returned, in return order
    rcOverlap,  \* some reconfigure invocation began while another was running
    rcLate,     \* some reconfigure invocation ran, in part, after main() was called
    evBuf,      \* the event bus (mpsc::channel(init.event_channel_size))
    evConsumed, \* every Event the action worker received, in order
    sendPc,     \* each producer's current Watchexec::send_event invocation
    evRes       \* each producer's send_event results so far, in call order

lifeVars == <<permit, coordPc, result, joinFrom, sub>>
mainVars == <<handle, mainPc>>
errVars == <<erBuf, erSent, erRecvd, handled>>
rcVars == <<initCfg, acVal, fsVal, rc, rcLast, rcOverlap, rcLate>>
evVars == <<evBuf, evConsumed, sendPc, evRes>>

vars == <<lifeVars, mainVars, errVars, rcVars, evVars>>

(***************************************************************************)
(* flatten: a JoinError becomes CriticalError::MainTaskJoin, otherwise the *)
(* task's own result.                                                      *)
(***************************************************************************)
\* a variant that passes the JoinError's payload on without wrapping it
flatten_unwrapped(join_res) == join_res.val

flatten(join_res) ==
    IF join_res.join = "JoinError"
    THEN Crit("MainTaskJoin", join_res.val.of)
    ELSE join_res.val

\* the flattened result of subtask w, once it has completed
SubRes(w) == flatten(sub[w].jr)

SubDone(w) == sub[w].st = "done"
SubFailed(w) == SubDone(w) /\ SubRes(w).kind # "Ok"

(***************************************************************************)
(* try_join!(action, error_hook, fs, signal): ready with an error as soon  *)
(* as a polled branch is ready with Err, ready with Ok once all four are   *)
(* ready with Ok, pending otherwise.  The value is the set of subtasks     *)
(* whose result the poll may return ("-" standing for the all-Ok result),  *)
(* empty when the join is pending.                                         *)
(***************************************************************************)
\* a variant that behaves as join!: ready only once all four are done
TryJoinReady_all(s) ==
    IF \A w \in Subtasks : s[w].st = "done"
    THEN LET failed == {w \in Subtasks : flatten(s[w].jr).kind # "Ok"}
         IN  IF failed # {} THEN failed ELSE {"-"}
    ELSE {}

TryJoinReady(s) ==
    LET failed == {w \in Subtasks : s[w].st = "done" /\ flatten(s[w].jr).kind # "Ok"}
    IN  IF failed # {} THEN failed
        ELSE IF \A w \in Subtasks : s[w].st = "done" THEN {"-"}
        ELSE {}

\* .map(drop): the joined value of a ready branch
TryJoinValue(s, w) == IF w = "-" THEN OkRes ELSE flatten(s[w].jr)

(***************************************************************************)
(* .or_else(|e| if matches!(e, CriticalError::Exit) { Ok(()) } else        *)
(* { Err(e) })                                                             *)
(***************************************************************************)
\* a variant that passes CriticalError::Exit on to the caller
EraseExit_kept(r) == r

EraseExit(r) == IF r.kind = "Exit" THEN OkRes ELSE r

(***************************************************************************)
(* Notify::notify_one: wakes the registered waiter, else stores a permit.  *)
(***************************************************************************)
\* a variant in which every release lets the task pass the gate anew
NotifyOnePc_again(pc) == "released"

NotifyOnePc(pc) == IF pc = "armed" THEN "released" ELSE pc

\* a variant that stores no permit: a release with no waiter is lost
NotifyOnePermit_lost(pc, p) == p

NotifyOnePermit(pc, p) == IF pc = "armed" THEN p ELSE TRUE

(***************************************************************************)
(* AtomicTake::take: the first take gets the value, the cell stays empty.  *)
(***************************************************************************)
\* a variant whose take leaves the value in the cell
TakeCell_left(h) == h

TakeCell(h) == "none"
TakeGot(h) == h = "some"

\* line 77, the first poll of notified(): a stored permit releases the task
\* at once, otherwise it waits
\* a variant that does not wait for the start lock
NotifiedPc_eager(p) == "released"

NotifiedPc(p) == IF p THEN "released" ELSE "armed"

(***************************************************************************)
(* RuntimeConfig values.  Config k holds the action working data k and the *)
(* fs working data k; 0 is the Default of both.                            *)
(***************************************************************************)
ConfigIds == 0 .. MaxConfig
ActionData(k) == [of |-> "action", id |-> k]
FsData(k) == [of |-> "fs", id |-> k]
RuntimeConfig(k) == [action |-> ActionData(k), fs |-> FsData(k)]
DefaultFs == FsData(0)

(***************************************************************************)
(* watch::Sender::send: fails, leaving the value as it is, when every      *)
(* receiver has been dropped; otherwise replaces the value.                *)
(***************************************************************************)
\* a variant that reports success without replacing the stored value
WatchSend_stale(rxAlive, old, new) == [ok |-> rxAlive, val |-> old]

WatchSend(rxAlive, old, new) ==
    IF rxAlive THEN [ok |-> TRUE, val |-> new] ELSE [ok |-> FALSE, val |-> old]

(***************************************************************************)
(* Watchexec::new, lines 62-70: the action channel is created holding      *)
(* take(&mut runtime.action); the fs channel is created holding the        *)
(* default and runtime.fs is sent to it at once.                           *)
(***************************************************************************)
NewActionWatch(runtime) == runtime.action

\* a variant without the send of line 69: the fs channel keeps the default
NewFsWatch_default(runtime) == DefaultFs

NewFsWatch(runtime) == WatchSend(TRUE, DefaultFs, runtime.fs).val

(***************************************************************************)
(* The receivers ac_r, fs_r and ev_r are captured by the coordination task *)
(* until it spawns the workers (lines 91-95), then owned by the worker,    *)
(* and dropped when the worker's task ends.                                *)
(***************************************************************************)
HeldByCoord == coordPc \in {"spawned", "armed", "released"}

\* a variant in which ac_r exists only once the action worker owns it
AcRxAlive_worker == sub["action"] = Running

AcRxAlive == HeldByCoord \/ sub["action"] = Running
FsRxAlive == HeldByCoord \/ sub["fs"] = Running
EvRxAlive == HeldByCoord \/ sub["action"] = Running

(***************************************************************************)
(* mpsc::Sender::send on a bounded channel, as far as it can complete:     *)
(* "Closed" (an error) when the receiver is gone, "Ok" with the value      *)
(* appended when a slot is free, "Full" when the sender stays suspended.   *)
(***************************************************************************)
\* a variant that does not notice a dropped receiver
MpscSend_open(rxAlive, buf, cap, v) ==
    IF Len(buf) < cap THEN [st |-> "Ok", buf |-> Append(buf, v)]
    ELSE [st |-> "Full", buf |-> buf]

\* a variant that returns Ok on a full channel and discards the value
MpscSend_lossy(rxAlive, buf, cap, v) ==
    IF ~rxAlive THEN [st |-> "Closed", buf |-> buf]
    ELSE IF Len(buf) < cap THEN [st |-> "Ok", buf |-> Append(buf, v)]
    ELSE [st |-> "Ok", buf |-> buf]

MpscSend(rxAlive, buf, cap, v) ==
    IF ~rxAlive THEN [st |-> "Closed", buf |-> buf]
    ELSE IF Len(buf) < cap THEN [st |-> "Ok", buf |-> Append(buf, v)]
    ELSE [st |-> "Full", buf |-> buf]

(***************************************************************************)
(* mpsc::Receiver::recv with an item queued: returns the oldest item and   *)
(* removes it from the channel.                                            *)
(***************************************************************************)
\* a variant that returns the oldest item and leaves it in the channel
MpscRecv_peek(buf) == [val |-> Head(buf), buf |-> buf]

MpscRecv(buf) == [val |-> Head(buf), buf |-> Tail(buf)]

\* recv returns None: nothing is queued and every sender has been dropped
\* a variant that returns None as soon as every sender has been dropped
MpscRecvNone_eager(buf, senders) == senders = {}

MpscRecvNone(buf, senders) == buf = <<>> /\ senders = {}

\* two tasks calling Watchexec::send_event concurrently
Producers == {"p1", "p2"}
ReconfCalls == 1 .. MaxReconf

IdleCall == [pc |-> "idle", cfg |-> 0, ac |-> "-", fs |-> "-"]

Init ==
    /\ handle = "some"
    /\ permit = FALSE
    /\ coordPc = "spawned"
    /\ result = NoJr
    /\ joinFrom = "-"
    /\ sub = [w \in Subtasks |-> Unspawned]
    /\ mainPc = [c \in MainCalls |-> "idle"]
    /\ erBuf = <<>>
    /\ erSent = <<>>
    /\ erRecvd = <<>>
    /\ handled = <<>>
    /\ initCfg \in ConfigIds
    /\ acVal = NewActionWatch(RuntimeConfig(initCfg))
    /\ fsVal = NewFsWatch(RuntimeConfig(initCfg))
    /\ rc = [r \in ReconfCalls |-> IdleCall]
    /\ rcLast = <<>>
    /\ rcOverlap = FALSE
    /\ rcLate = FALSE
    /\ evBuf = <<>>
    /\ evConsumed = <<>>
    /\ sendPc = [p \in Producers |-> "idle"]
    /\ evRes = [p \in Producers |-> <<>>]

(***************************************************************************)
(* Watchexec::main, line 154: self.start_lock.notify_one()                 *)
(***************************************************************************)
main_notify_one(c) ==
    /\ mainPc[c] = "idle"
    /\ IF c = 1 THEN TRUE ELSE mainPc[c - 1] # "idle"
    /\ mainPc' = [mainPc EXCEPT ![c] = "notified"]
    /\ coordPc' = NotifyOnePc(coordPc)
    /\ permit' = NotifyOnePermit(coordPc, permit)
    /\ UNCHANGED <<handle, result, joinFrom, sub, errVars, rcVars, evVars>>

(***************************************************************************)
(* Watchexec::main, lines 157-159: self.handle.take().expect(...)          *)
(***************************************************************************)
main_take(c) ==
    /\ mainPc[c] = "notified"
    /\ mainPc' = [mainPc EXCEPT ![c] = IF TakeGot(handle) THEN "returned" ELSE "panicked"]
    /\ handle' = TakeCell(handle)
    /\ UNCHANGED <<lifeVars, errVars, rcVars, evVars>>

(***************************************************************************)
(* The coordination task's first poll of notify.notified().await: a stored *)
(* permit is consumed, otherwise the task registers as the waiter.         *)
(***************************************************************************)
coord_notified ==
    /\ coordPc = "spawned"
    /\ coordPc' = NotifiedPc(permit)
    /\ permit' = FALSE
    /\ UNCHANGED <<result, joinFrom, sub, mainVars, errVars, rcVars, evVars>>

(***************************************************************************)
(* Lines 78-98: the released task creates the error bus and spawns the     *)
(* four subtasks, then awaits try_join!.                                   *)
(***************************************************************************)
coord_spawn ==
    /\ coordPc = "released"
    /\ coordPc' = "running"
    /\ sub' = [w \in Subtasks |-> Running]
    /\ UNCHANGED <<permit, result, joinFrom, mainVars, errVars, rcVars, evVars>>

(***************************************************************************)
(* The end of the async block drops the try_join! future and with it the   *)
(* subtasks' JoinHandles (line 87).  Dropping a JoinHandle detaches its    *)
(* task: the task goes on as it was.                                       *)
(***************************************************************************)
\* a variant in which dropping the handle of a running task aborts it
DropJoinHandles_abort(s) ==
    [w \in Subtasks |-> IF s[w].st = "running" THEN Done(JoinErr(w)) ELSE s[w]]

DropJoinHandles(s) == s

(***************************************************************************)
(* Lines 100-113: a poll of try_join! that finds it ready; the result is   *)
(* mapped and the task's output stored for the JoinHandle.                 *)
(***************************************************************************)
coord_try_join ==
    /\ coordPc = "running"
    /\ \E w \in TryJoinReady(sub) :
        /\ joinFrom' = w
        /\ result' = JoinOk(EraseExit(TryJoinValue(sub, w)))
    /\ coordPc' = "done"
    /\ sub' = DropJoinHandles(sub)
    /\ UNCHANGED <<permit, mainVars, errVars, rcVars, evVars>>

(***************************************************************************)
(* The workers action::worker, fs::worker and signal::source::worker are   *)
(* not part of this file.  Each is a spawned task of type                  *)
(* Result<(), CriticalError>: it may return Ok, return a critical error or *)
(* panic; while it runs it may send RuntimeErrors on its clone of the      *)
(* error bus sender, read its config channel and (the action worker)       *)
(* receive from the event bus.  The end of the action worker's task drops  *)
(* ev_r and with it the events still queued.                               *)
(***************************************************************************)
WorkerReturns(w) == {OkRes, Crit("Worker", w)}

EvBufAfterEnd(w, buf) == IF w = "action" THEN <<>> ELSE buf

worker_return(w, r) ==
    /\ sub[w] = Running
    /\ sub' = [sub EXCEPT ![w] = Done(JoinOk(r))]
    /\ evBuf' = EvBufAfterEnd(w, evBuf)
    /\ UNCHANGED <<permit, coordPc, result, joinFrom, mainVars, errVars, rcVars,
                   evConsumed, sendPc, evRes>>

worker_panic(w) ==
    /\ sub[w] = Running
    /\ sub' = [sub EXCEPT ![w] = Done(JoinErr(w))]
    /\ evBuf' = EvBufAfterEnd(w, evBuf)
    /\ UNCHANGED <<permit, coordPc, result, joinFrom, mainVars, errVars, rcVars,
                   evConsumed, sendPc, evRes>>

\* a RuntimeError: `kind` is "Exit" for RuntimeError::Exit
RuntimeErr(id, kind, ctx) == [id |-> id, kind |-> kind, ctx |-> ctx]
ErrorKinds == {"Exit", "Other"}

\* er_s.send(err).await completing: the bus has a receiver and a free slot
worker_send_error(w, kind) ==
    /\ sub[w] = Running
    /\ Len(erSent) < MaxErrors
    /\ LET err == RuntimeErr(Len(erSent) + 1, kind, "worker")
           sent == MpscSend(sub["error_hook"] = Running, erBuf, ErrorChannelSize, err)
       IN  /\ sent.st = "Ok"
           /\ erBuf' = sent.buf
           /\ erSent' = Append(erSent, err)
    /\ UNCHANGED <<lifeVars, mainVars, erRecvd, handled, rcVars, evVars>>

(***************************************************************************)
(* The holders of an error bus sender: the coordination task keeps er_s    *)
(* until its async block ends, each worker keeps its clone while it runs.  *)
(***************************************************************************)
\* a variant in which the coordination task keeps no sender of its own
ErSenders_workers == {w \in Workers : sub[w] = Running}

ErSenders ==
    (IF coordPc = "running" THEN {"coord"} ELSE {})
        \cup {w \in Workers : sub[w] = Running}

(***************************************************************************)
(* handler::rte("error hook", err): a new RuntimeError built from the      *)
(* handler's failure on error `id`.                                        *)
(***************************************************************************)
rte(ctx, id) == RuntimeErr(id, "Handler", ctx)

HandlerResults == {"Ok", "Err"}

(***************************************************************************)
(* Lines 180-188: the handler invocations of one loop iteration, given the *)
(* handler's answers r1 (to err) and r2 (to the wrapped failure).          *)
(***************************************************************************)
\* a variant that keeps retrying: a third invocation after a second failure
HandleCalls_thrice(err, r1, r2) ==
    IF r1 = "Ok"
    THEN << [arg |-> err, res |-> r1] >>
    ELSE IF r2 = "Ok"
    THEN << [arg |-> err, res |-> r1],
            [arg |-> [id |-> err.id, kind |-> "Handler", ctx |-> "error hook"], res |-> r2] >>
    ELSE << [arg |-> err, res |-> r1],
            [arg |-> [id |-> err.id, kind |-> "Handler", ctx |-> "error hook"], res |-> r2],
            [arg |-> [id |-> err.id, kind |-> "Handler", ctx |-> "error hook"], res |-> r2] >>

HandleCalls(err, r1, r2) ==
    IF r1 = "Ok"
    THEN << [arg |-> err, res |-> r1] >>
    ELSE << [arg |-> err, res |-> r1],
            [arg |-> rte("error hook", err.id), res |-> r2] >>

\* line 175: matches!(err, RuntimeError::Exit)
\* a variant that matches nothing: the sentinel is treated as any error
IsExit_never(err) == FALSE

IsExit(err) == err.kind = "Exit"

(***************************************************************************)
(* Lines 175-189: what one iteration does to the hook's task, given the    *)
(* handler's answers: Exit returns Err(CriticalError::Exit), anything else *)
(* leaves the loop running whatever the handler answered.                  *)
(***************************************************************************)
\* a variant that gives up with a critical error when the handler fails twice
HookAfter_escalating(err, r1, r2) ==
    IF err.kind = "Exit" THEN Done(JoinOk(ExitErr))
    ELSE IF r1 = "Err" /\ r2 = "Err"
    THEN Done(JoinOk(Crit("Handler", "error_hook")))
    ELSE Running

HookAfter(err, r1, r2) ==
    IF IsExit(err) THEN Done(JoinOk(ExitErr)) ELSE Running

(***************************************************************************)
(* error_hook, one iteration of `while let Some(err) = errors.recv().await`*)
(* with an error queued.  The handler is synchronous, so the iteration has *)
(* no suspension point.  Returning drops the receiver and what is still    *)
(* queued.                                                                 *)
(***************************************************************************)
error_hook_recv ==
    /\ sub["error_hook"] = Running
    /\ erBuf # <<>>
    /\ LET err == MpscRecv(erBuf).val
       IN  /\ erRecvd' = Append(erRecvd, err)
           /\ \E r1, r2 \in HandlerResults :
                /\ sub' = [sub EXCEPT !["error_hook"] = HookAfter(err, r1, r2)]
                /\ erBuf' = IF sub'["error_hook"] = Running
                            THEN MpscRecv(erBuf).buf ELSE <<>>
                /\ handled' = IF IsExit(err) THEN handled
                              ELSE handled \o HandleCalls(err, r1, r2)
    /\ UNCHANGED <<permit, coordPc, result, joinFrom, mainVars, erSent, rcVars, evVars>>

(***************************************************************************)
(* error_hook, lines 174 and 191: recv() returns None once the bus is      *)
(* empty and every sender is dropped; the hook returns Ok(()).             *)
(***************************************************************************)
error_hook_closed ==
    /\ sub["error_hook"] = Running
    /\ MpscRecvNone(erBuf, ErSenders)
    /\ sub' = [sub EXCEPT !["error_hook"] = Done(JoinOk(OkRes))]
    /\ UNCHANGED <<permit, coordPc, result, joinFrom, mainVars, errVars, rcVars, evVars>>

\* line 130, the `?` after action_watch.send: a failed send returns at once
\* a variant that goes on to the fs send whatever the action send returned
AfterActionSend_on(ok) == "fs"

AfterActionSend(ok) == IF ok THEN "fs" ELSE "returned"

SendRes(ok) == IF ok THEN "Ok" ELSE "Err"

\* Watchexec::main has been called
Started == \E c \in MainCalls : mainPc[c] # "idle"

\* the invocations are numbered in the order they begin
ReconfRunning == {q \in ReconfCalls : rc[q].pc = "fs"}

(***************************************************************************)
(* Watchexec::reconfigure(config), line 130:                               *)
(* self.action_watch.send(config.action)?                                  *)
(***************************************************************************)
reconfigure_action(r, k) ==
    /\ rc[r].pc = "idle"
    /\ IF r = 1 THEN TRUE ELSE rc[r - 1].pc # "idle"
    /\ LET sent == WatchSend(AcRxAlive, acVal, RuntimeConfig(k).action)
           pc == AfterActionSend(sent.ok)
       IN  /\ acVal' = sent.val
           /\ rc' = [rc EXCEPT ![r] = [pc |-> pc, cfg |-> k,
                                       ac |-> SendRes(sent.ok), fs |-> "-"]]
           /\ rcLast' = IF pc = "returned" THEN Append(rcLast, r) ELSE rcLast
    /\ rcOverlap' = (rcOverlap \/ ReconfRunning # {})
    /\ rcLate' = (rcLate \/ Started)
    /\ UNCHANGED <<lifeVars, mainVars, errVars, initCfg, fsVal, evVars>>

(***************************************************************************)
(* Watchexec::reconfigure, lines 131-132: self.fs_watch.send(config.fs)?   *)
(* and the return.                                                         *)
(***************************************************************************)
reconfigure_fs(r) ==
    /\ rc[r].pc = "fs"
    /\ LET sent == WatchSend(FsRxAlive, fsVal, RuntimeConfig(rc[r].cfg).fs)
       IN  /\ fsVal' = sent.val
           /\ rc' = [rc EXCEPT ![r].pc = "returned", ![r].fs = SendRes(sent.ok)]
    /\ rcLast' = Append(rcLast, r)
    /\ rcLate' = (rcLate \/ Started)
    /\ UNCHANGED <<lifeVars, mainVars, errVars, initCfg, acVal, rcOverlap, evVars>>

\* Result<(), ReconfigError> of a returned invocation: the failed channel
ReconfResult(c) ==
    IF c.ac = "Err" THEN "Err(action)"
    ELSE IF c.fs = "Err" THEN "Err(fs)"
    ELSE "Ok"

(***************************************************************************)
(* A worker reading its config channel (watch::Receiver::borrow) gets the  *)
(* value the channel holds at that moment; the read changes nothing.  Only *)
(* a running worker reads.                                                 *)
(***************************************************************************)
Borrow(val) == val
ActionWorkerReads == IF sub["action"] = Running THEN {Borrow(acVal)} ELSE {}
FsWorkerReads == IF sub["fs"] = Running THEN {Borrow(fsVal)} ELSE {}

\* the reconfigure invocations so far: the last one that returned, and
\* whether they ran one after the other with none in progress now
LastReturned == IF rcLast = <<>> THEN 0 ELSE rcLast[Len(rcLast)]
Quiet == ReconfRunning = {} /\ ~rcOverlap

\* the n-th Event a producer passes to send_event
Event(p, n) == [from |-> p, n |-> n]

(***************************************************************************)
(* Watchexec::send_event, line 142: the call begins and awaits             *)
(* self.event_input.send(event).                                           *)
(***************************************************************************)
send_event_call(p) ==
    /\ sendPc[p] = "idle"
    /\ Len(evRes[p]) < MaxSends
    /\ sendPc' = [sendPc EXCEPT ![p] = "pending"]
    /\ UNCHANGED <<lifeVars, mainVars, errVars, rcVars, evBuf, evConsumed, evRes>>

(***************************************************************************)
(* Watchexec::send_event, lines 142-143: the awaited send completes, with  *)
(* Ok once the event is enqueued or with the error of a closed channel;    *)
(* while the bus is full the call stays suspended.                         *)
(***************************************************************************)
send_event_send(p) ==
    /\ sendPc[p] = "pending"
    /\ LET sent == MpscSend(EvRxAlive, evBuf, EventChannelSize,
                            Event(p, Len(evRes[p]) + 1))
       IN  /\ sent.st # "Full"
           /\ evBuf' = sent.buf
           /\ evRes' = [evRes EXCEPT ![p] = Append(@, SendRes(sent.st = "Ok"))]
    /\ sendPc' = [sendPc EXCEPT ![p] = "idle"]
    /\ UNCHANGED <<lifeVars, mainVars, errVars, rcVars, evConsumed>>

\* action::worker receiving the next event of the bus (ev_r.recv())
action_worker_recv ==
    /\ sub["action"] = Running
    /\ evBuf # <<>>
    /\ evConsumed' = Append(evConsumed, MpscRecv(evBuf).val)
    /\ evBuf' = MpscRecv(evBuf).buf
    /\ UNCHANGED <<lifeVars, mainVars, errVars, rcVars, sendPc, evRes>>

(***************************************************************************)
(* The next-state relations.                                               *)
(***************************************************************************)
MainOps ==
    \/ \E c \in MainCalls : main_notify_one(c)
    \/ \E c \in MainCalls : main_take(c)

\* a single Watchexec::main invocation
MainOnce ==
    \/ main_notify_one(1)
    \/ main_take(1)

Tasks ==
    \/ coord_notified
    \/ coord_spawn
    \/ coord_try_join
    \/ \E w \in Workers : \E r \in WorkerReturns(w) : worker_return(w, r)
    \/ \E w \in Workers : worker_panic(w)
    \/ error_hook_closed

ErrorBus ==
    \/ \E w \in Workers : \E k \in ErrorKinds : worker_send_error(w, k)
    \/ error_hook_recv

Reconf ==
    \/ \E r \in ReconfCalls : \E k \in ConfigIds : reconfigure_action(r, k)
    \/ \E r \in ReconfCalls : reconfigure_fs(r)

Events ==
    \/ \E p \in Producers : send_event_call(p)
    \/ \E p \in Producers : send_event_send(p)
    \/ action_worker_recv

Next == MainOps \/ Tasks \/ ErrorBus \/ Reconf \/ Events

Spec == Init /\ [][Next]_vars

\* the lifecycle under any number of main invocations
NextMain == MainOps \/ Tasks
SpecMain == Init /\ [][NextMain]_vars

\* the error bus and the error hook
NextErr == MainOnce \/ Tasks \/ ErrorBus
SpecErr == Init /\ [][NextErr]_vars

\* reconfiguration
NextReconf == MainOnce \/ Tasks \/ Reconf
SpecReconf == Init /\ [][NextReconf]_vars

\* the event bus
NextEv == MainOnce \/ Tasks \/ Events
SpecEv == Init /\ [][NextEv]_vars

\* the public operations before and after the start: one main, one
\* reconfigure, one producer of events and one RuntimeError
FirstError(w, k) == erSent = <<>> /\ worker_send_error(w, k)

NextApi ==
    \/ MainOnce
    \/ Tasks
    \/ \E w \in Workers : \E k \in ErrorKinds : FirstError(w, k)
    \/ error_hook_recv
    \/ \E k \in ConfigIds : reconfigure_action(1, k)
    \/ reconfigure_fs(1)
    \/ send_event_call("p1")
    \/ send_event_send("p1")
    \/ action_worker_recv
SpecApi == Init /\ [][NextApi]_vars

\* the scheduler runs every task that is ready: the coordination task and
\* the error hook are polled once they can make progress
FairTasks ==
    /\ WF_vars(coord_notified)
    /\ WF_vars(coord_spawn)
    /\ WF_vars(coord_try_join)
    /\ WF_vars(error_hook_recv)
    /\ WF_vars(error_hook_closed)

FairSpecErr == SpecErr /\ FairTasks

\* the lifecycle with the coordination task polled whenever it is ready
FairGate ==
    /\ WF_vars(coord_notified)
    /\ WF_vars(coord_spawn)

FairSpecMain == SpecMain /\ FairGate

(***************************************************************************)
(* Properties.                                                             *)
(***************************************************************************)
MainReturned == {c \in MainCalls : mainPc[c] = "returned"}
MainPanicked == {c \in MainCalls : mainPc[c] = "panicked"}

ExitQueued == \E i \in DOMAIN erBuf : IsExit(erBuf[i])
HookGotExit ==
    /\ sub["error_hook"] = Done(JoinOk(ExitErr))
    /\ erRecvd # <<>>
    /\ IsExit(erRecvd[Len(erRecvd)])

\* C1, as stated: when the coordination task completes after the error hook
\* has received RuntimeError::Exit, the result it delivers is success.
C1_Original ==
    [][(coordPc = "running" /\ HookGotExit /\ coordPc' = "done")
            => result' = JoinOk(OkRes)]_vars

\* C1, amended: a queued RuntimeError::Exit is eventually received by the
\* error hook and the coordination task eventually completes; the result
\* is success when the join observed the hook's Exit, and otherwise the
\* critical error of the other subtask the join observed first.
C1_ExitLeadsToCompletion ==
    /\ ExitQueued ~> HookGotExit
    /\ ExitQueued ~> (coordPc = "done")
    /\ [](coordPc = "done" /\ joinFrom = "error_hook" => result = JoinOk(OkRes))
    /\ [](coordPc = "done" /\ joinFrom # "error_hook" =>
            /\ joinFrom \in Workers
            /\ SubFailed(joinFrom)
            /\ result = JoinOk(SubRes(joinFrom)))

\* an error was handled ahead of the sentinel, and the join observed the
\* hook's Exit
C1_Witness ==
    /\ coordPc = "done"
    /\ joinFrom = "error_hook"
    /\ HookGotExit
    /\ Len(erRecvd) >= 2
    /\ result = JoinOk(OkRes)

\* C2: over all interleavings of main() calls, at most one call returns the
\* handle, the first take returns it (so once any call has finished exactly
\* one has returned) and every other finished call has panicked.
C2_ExactlyOneHandle ==
    /\ Cardinality(MainReturned) <= 1
    /\ (MainReturned \cup MainPanicked # {}) => Cardinality(MainReturned) = 1
    /\ (handle = "none") <=> (MainReturned # {})
    /\ \A c \in MainCalls : mainPc[c] \in {"idle", "notified", "returned", "panicked"}

\* one call returned the handle and two others panicked
C2_Witness ==
    /\ Cardinality(MainReturned) = 1
    /\ Cardinality(MainPanicked) >= 2

\* C3, as stated: while the coordination task awaits the join, the join is
\* ready as soon as any one subtask has completed, whatever its result.
C3_Original ==
    (coordPc = "running" /\ \E w \in Subtasks : SubDone(w))
        => ENABLED coord_try_join

\* C3, amended: the join is ready as soon as one subtask has completed with
\* an error (a critical error or a panic), without waiting for the others;
\* while none has failed it stays pending until all four have completed.
C3_FailFastOnError ==
    /\ (coordPc = "running" /\ \E w \in Subtasks : SubFailed(w))
        => ENABLED coord_try_join
    /\ (coordPc = "running" /\ (\A w \in Subtasks : ~SubFailed(w))
                            /\ (\E w \in Subtasks : ~SubDone(w)))
        => ~ENABLED coord_try_join
    /\ coordPc = "done" =>
        \/ joinFrom \in Subtasks /\ SubFailed(joinFrom)
        \/ joinFrom = "-" /\ \A w \in Subtasks : SubDone(w) /\ ~SubFailed(w)

\* the coordination task completed on one failure while the three other
\* subtasks were still running
C3_Witness ==
    /\ coordPc = "done"
    /\ Cardinality({w \in Subtasks : sub[w] = Running}) = 3

\* C4: the result delivered through the handle is success or the critical
\* error of the failed subtask the join observed (MainTaskJoin for a
\* panic), and never CriticalError::Exit.
C4_ResultOkOrCritical ==
    /\ coordPc # "done" => result = NoJr
    /\ coordPc = "done" =>
        /\ result.join = "Ok"
        /\ result.val.kind # "Exit"
        /\ \/ /\ result.val = OkRes
              /\ joinFrom = "error_hook"
              /\ sub["error_hook"].jr = JoinOk(ExitErr)
           \/ /\ joinFrom \in Workers
              /\ SubFailed(joinFrom)
              /\ result.val.of = joinFrom
              /\ result.val.kind =
                    IF sub[joinFrom].jr.join = "JoinError" THEN "MainTaskJoin"
                    ELSE sub[joinFrom].jr.val.kind
              /\ result.val.kind \in {"Worker", "MainTaskJoin"}

\* a worker's panic reached the caller as MainTaskJoin although the hook
\* had returned Exit as well
C4_Witness ==
    /\ coordPc = "done"
    /\ result.val.kind = "MainTaskJoin"
    /\ sub["error_hook"].jr = JoinOk(ExitErr)

OkIndexes(p) == {n \in DOMAIN evRes[p] : evRes[p][n] = "Ok"}
RECURSIVE OkEventsUpTo(_, _)
OkEventsUpTo(p, n) ==
    IF n = 0 THEN <<>>
    ELSE IF evRes[p][n] = "Ok" THEN Append(OkEventsUpTo(p, n - 1), Event(p, n))
    ELSE OkEventsUpTo(p, n - 1)
OkEvents(p) == OkEventsUpTo(p, Len(evRes[p]))
From(seq, p) == SelectSeq(seq, LAMBDA e : e.from = p)
IsPrefix(a, b) == Len(a) <= Len(b) /\ a = SubSeq(b, 1, Len(a))

PublishedFs ==
    LET ok == {i \in DOMAIN rcLast : rc[rcLast[i]].ac = "Ok"}
    IN  IF ok = {} THEN initCfg
        ELSE rc[rcLast[CHOOSE i \in ok : \A j \in ok : j <= i]].cfg

CallsFor(err) == SelectSeq(handled, LAMBDA h : h.arg.id = err.id)

\* C8: for every non-sentinel error the hook received, the handler was
\* invoked with it once; if that invocation failed it was invoked exactly
\* once more, with a new RuntimeError of context "error hook", and never a
\* third time; the invocations follow the order in which the errors were
\* received.
C8_AtMostTwoInvocations ==
    /\ \A i \in DOMAIN erRecvd :
        LET err == erRecvd[i]
            calls == CallsFor(err)
        IN  IF err.kind = "Exit" THEN calls = <<>>
            ELSE /\ Len(calls) \in {1, 2}
                 /\ calls[1].arg = err
                 /\ calls[1].res = "Ok" => Len(calls) = 1
                 /\ calls[1].res = "Err" =>
                        /\ Len(calls) = 2
                        /\ calls[2].arg.ctx = "error hook"
                        /\ calls[2].arg.kind = "Handler"
    /\ \A i \in DOMAIN handled :
        /\ \E j \in DOMAIN erRecvd : erRecvd[j].id = handled[i].arg.id
        /\ i > 1 => handled[i - 1].arg.id <= handled[i].arg.id

\* the handler failed on both invocations for one error and was invoked
\* for the next error afterwards
C8_Witness ==
    \E i \in DOMAIN handled :
        /\ i + 2 \in DOMAIN handled
        /\ handled[i].res = "Err"
        /\ handled[i + 1].res = "Err"
        /\ handled[i + 1].arg.ctx = "error hook"
        /\ handled[i + 2].arg.id # handled[i].arg.id

\* C9: receiving an error other than RuntimeError::Exit leaves the error
\* hook running and the coordination task and its result as they were,
\* whatever the handler returned; the hook returns an error only on
\* receiving the sentinel.
C9_OnlyExitEscalates ==
    /\ [][(erRecvd' # erRecvd /\ erRecvd'[Len(erRecvd')].kind # "Exit") =>
            /\ sub'["error_hook"] = Running
            /\ coordPc' = coordPc
            /\ result' = result]_vars
    /\ [](SubFailed("error_hook") =>
            /\ sub["error_hook"].jr = JoinOk(ExitErr)
            /\ erRecvd # <<>>
            /\ erRecvd[Len(erRecvd)].kind = "Exit")

\* the handler failed twice for an error and the hook and the coordination
\* task are still running
C9_Witness ==
    /\ sub["error_hook"] = Running
    /\ coordPc = "running"
    /\ \E i \in DOMAIN handled :
        /\ handled[i].arg.ctx = "error hook"
        /\ handled[i].res = "Err"

\* C10: as long as main() has not been called the coordination task has
\* not passed the start gate: no subtask is spawned, the handler has not
\* been invoked and no event has been consumed, whatever reconfigure and
\* send_event calls were made.
C10_InertBeforeMain ==
    ~Started =>
        /\ coordPc \in {"spawned", "armed"}
        /\ \A w \in Subtasks : sub[w] = Unspawned
        /\ handled = <<>>
        /\ erRecvd = <<>>
        /\ evConsumed = <<>>
        /\ result = NoJr
        /\ handle = "some"

\* main() not called, the task waiting on the gate, after a reconfigure
\* returned and a send_event enqueued an event
C10_Witness ==
    /\ ~Started
    /\ coordPc = "armed"
    /\ rc[1].pc = "returned"
    /\ evBuf # <<>>
    /\ sendPc["p1"] = "pending"

AllSpawned == \A w \in Subtasks : sub[w] # Unspawned

\* C11: once main() has been called the coordination task eventually passes
\* the start gate and spawns the four subtasks.  The release is not lost in
\* either order: a task already waiting is woken by notify_one, so it is
\* never left waiting after a call; a task that has not reached the wait
\* finds a stored permit, and its first poll of the gate passes at once.
C11_ReleaseNotLost ==
    /\ Started ~> (coordPc \in {"running", "done"} /\ AllSpawned)
    /\ [](Started => coordPc # "armed")
    /\ [](Started /\ coordPc = "spawned" => permit)
    /\ [][(coordPc = "spawned" /\ permit) => coordPc' \in {"spawned", "released"}]_vars

\* main() returned the handle before the coordination task first polled
\* the gate: the release is held as a permit
C11_Witness ==
    /\ mainPc[1] = "returned"
    /\ coordPc = "spawned"
    /\ permit

Last(seq) == seq[Len(seq)]

\* C12: a send_event returns an error exactly when the event bus's receiver
\* has been dropped by the time the send completes: it returns Ok (or stays
\* suspended) while the receiver is held by the coordination task or by the
\* running action worker, and once the receiver is dropped no send_event
\* stays suspended: every pending one can complete, and completes with the
\* error.
C12_FailsIffReceiverDropped ==
    /\ [][\A p \in Producers : evRes'[p] # evRes[p] =>
            (Last(evRes'[p]) = "Err" <=> ~EvRxAlive)]_vars
    /\ [](\A p \in Producers : (sendPc[p] = "pending" /\ ~EvRxAlive) =>
            ENABLED send_event_send(p))
    /\ [](HeldByCoord => \A p \in Producers : \A n \in DOMAIN evRes[p] :
            evRes[p][n] = "Ok")

\* the action worker has ended: one producer's send_event, accepted once
\* before, has returned the error, and the other's is pending and about to
\* fail
C12_Witness ==
    /\ ~EvRxAlive
    /\ evRes["p1"] = <<"Ok", "Err">>
    /\ sendPc["p2"] = "pending"
    /\ evRes["p2"] = <<>>

\* C13: a publish of reconfigure fails only when the receiver of its channel
\* has been dropped, so reconfigure returns an error only then; while the
\* coordination task holds the receivers (before main() and until the
\* workers are spawned) every call that has returned has returned Ok; and
\* when every reconfigure so far was made before main(), one after the
\* other, both channels hold the snapshot of the last of them and that is
\* what each running worker reads.
C13_FailsOnlyWhenDropped ==
    /\ [][\A r \in ReconfCalls :
            /\ (rc[r].pc = "idle" /\ rc'[r].pc # "idle") =>
                    (rc'[r].ac = "Err" <=> ~AcRxAlive)
            /\ (rc[r].pc = "fs" /\ rc'[r].pc = "returned") =>
                    (rc'[r].fs = "Err" <=> ~FsRxAlive)]_vars
    /\ [](HeldByCoord => \A r \in ReconfCalls :
            rc[r].pc = "returned" => ReconfResult(rc[r]) = "Ok")
    /\ [](~Started => ~rcLate)
    /\ []((~rcLate /\ Quiet /\ LastReturned # 0) =>
            /\ acVal = RuntimeConfig(rc[LastReturned].cfg).action
            /\ fsVal = RuntimeConfig(rc[LastReturned].cfg).fs
            /\ \A v \in ActionWorkerReads : v = ActionData(rc[LastReturned].cfg)
            /\ \A v \in FsWorkerReads : v = FsData(rc[LastReturned].cfg))

\* two reconfigure calls were made before main(), the last with a config
\* other than the one given to new(); the workers have been spawned and are
\* running
C13_Witness ==
    /\ ~rcLate
    /\ Quiet
    /\ Len(rcLast) = 2
    /\ rc[1].cfg # rc[2].cfg
    /\ rc[LastReturned].cfg # initCfg
    /\ coordPc = "running"
    /\ ActionWorkerReads # {}
    /\ FsWorkerReads # {}

\* C14: while the coordination task awaits the join it holds er_s, so the
\* error bus is not closed, the error hook cannot take its Ok return and has
\* not returned Ok; hence the join never completes with all four subtasks
\* Ok: every completion of the coordination task follows the failure (a
\* critical error, CriticalError::Exit included, or a panic) of the subtask
\* the join observed.
C14_NoAllOkCompletion ==
    /\ [](coordPc = "running" =>
            /\ "coord" \in ErSenders
            /\ ~ENABLED error_hook_closed
            /\ sub["error_hook"] # Done(JoinOk(OkRes))
            /\ "-" \notin TryJoinReady(sub))
    /\ [](coordPc = "done" => joinFrom \in Subtasks /\ SubFailed(joinFrom))
    /\ [][(coordPc = "running" /\ coordPc' = "done") =>
            \E w \in Subtasks : SubFailed(w) /\ joinFrom' = w]_vars

\* the three workers have returned Ok and dropped their senders, the bus is
\* empty, and the error hook still waits on it: the join stays pending
C14_Witness ==
    /\ coordPc = "running"
    /\ \A w \in Workers : sub[w] = Done(JoinOk(OkRes))
    /\ sub["error_hook"] = Running
    /\ erBuf = <<>>
    /\ erRecvd # <<>>

\* C15: the step that completes the coordination task changes no subtask
\* and no channel.  Afterwards a subtask that was running still runs and
\* keeps its endpoints: the action worker its config and event receivers,
\* the fs worker its config receiver, each worker its error bus sender, the
\* error hook the bus's receiver.  So with the action worker running after
\* the completion, a send_event returns Ok by enqueuing, or stays suspended
\* while the bus is full, and a reconfigure's action publish succeeds.
C15_SiblingsUntouched ==
    /\ [][(coordPc = "running" /\ coordPc' = "done") =>
            /\ sub' = sub
            /\ errVars' = errVars
            /\ evVars' = evVars
            /\ rcVars' = rcVars]_vars
    /\ [](coordPc = "done" =>
            /\ \A w \in Workers : sub[w] = Running => w \in ErSenders
            /\ sub["action"] = Running => AcRxAlive /\ EvRxAlive
            /\ sub["fs"] = Running => FsRxAlive)
    /\ []((coordPc = "done" /\ sub["action"] = Running) =>
            \A p \in Producers : sendPc[p] = "pending" =>
                (ENABLED send_event_send(p) <=> Len(evBuf) < EventChannelSize))
    /\ [][(coordPc = "done" /\ sub["action"] = Running) =>
            /\ \A p \in Producers : evRes'[p] # evRes[p] =>
                    (Last(evRes'[p]) = "Ok" /\ evBuf' = Append(evBuf, Last(evBuf')))
            /\ \A r \in ReconfCalls : (rc[r].pc = "idle" /\ rc'[r].pc # "idle") =>
                    rc'[r].ac = "Ok"]_vars

\* after a graceful exit the three workers still run; an accepted event is
\* queued for the action worker and the next send_event is suspended on
\* the full bus
C15_Witness ==
    /\ coordPc = "done"
    /\ result = JoinOk(OkRes)
    /\ \A w \in Workers : sub[w] = Running
    /\ evConsumed = <<>>
    /\ evBuf = << Event("p1", 1) >>
    /\ sendPc["p1"] = "pending"

HookReturned == sub["error_hook"].st = "done"
ErIds == 1 .. MaxErrors
Enqueued(n) == \E i \in DOMAIN erSent : erSent[i].id = n
Consumed(n) == \E i \in DOMAIN erRecvd : erRecvd[i].id = n

\* C16, as stated: every RuntimeError a worker's send enqueued has been
\* consumed by the error hook or is still queued for it.
C16_Original ==
    \A i \in DOMAIN erSent :
        \/ \E j \in DOMAIN erRecvd : erRecvd[j] = erSent[i]
        \/ \E j \in DOMAIN erBuf : erBuf[j] = erSent[i]

\* C16, amended: the errors the hook consumed are a prefix of the errors
\* enqueued, so each is consumed at most once and in bus order; while the
\* hook runs every enqueued error is consumed or still queued, and is
\* eventually consumed unless the hook returns on a sentinel first.  The
\* sentinel is the last error consumed: the errors queued behind it are
\* dropped with the receiver, and no error is enqueued once the hook has
\* returned.
C16_ConsumedAtMostOnce ==
    /\ [](IsPrefix(erRecvd, erSent))
    /\ [](~HookReturned => erSent = erRecvd \o erBuf)
    /\ [](HookReturned => erBuf = <<>>)
    /\ [](\A i \in DOMAIN erRecvd : IsExit(erRecvd[i]) => i = Len(erRecvd))
    /\ [](Len(erRecvd) < Len(erSent) /\ HookReturned => HookGotExit)
    /\ [][HookReturned => erSent' = erSent]_vars
    /\ \A n \in ErIds : Enqueued(n) ~> (Consumed(n) \/ HookGotExit)

\* an error was consumed ahead of the sentinel and another, enqueued behind
\* the sentinel, was dropped when the hook returned
C16_Witness ==
    /\ HookGotExit
    /\ Len(erRecvd) = 2
    /\ Len(erSent) = 3
    /\ ~IsExit(erSent[3])

\* the errors the handler was first invoked with, and the errors received
\* that are not the sentinel, both in order
FirstCalls == SelectSeq(handled, LAMBDA h : h.arg.ctx = "worker")
ArgsOf(calls) == [i \in DOMAIN calls |-> calls[i].arg]
ReceivedNonExit == SelectSeq(erRecvd, LAMBDA e : e.kind # "Exit")

\* C17: the step in which the error hook receives the sentinel invokes no
\* handler and completes the hook with CriticalError::Exit; the handler is
\* never invoked with the sentinel, and never invoked, nor any error
\* received, once the hook has returned.  The errors received ahead of the
\* sentinel have been handled by then, in bus order.
C17_SentinelReturnsAtOnce ==
    /\ [][(erRecvd' # erRecvd /\ Last(erRecvd').kind = "Exit") =>
            /\ handled' = handled
            /\ sub'["error_hook"] = Done(JoinOk(ExitErr))
            /\ erBuf' = <<>>]_vars
    /\ [](\A i \in DOMAIN handled : handled[i].arg.kind # "Exit")
    /\ [][HookReturned => (handled' = handled /\ erRecvd' = erRecvd)]_vars
    /\ [](ArgsOf(FirstCalls) = ReceivedNonExit)
    /\ [](IsPrefix(ReceivedNonExit, erSent))

\* two errors were handled ahead of the sentinel, the handler failing on
\* the first, and the hook returned on the sentinel
C17_Witness ==
    /\ sub["error_hook"] = Done(JoinOk(ExitErr))
    /\ Len(erRecvd) = 3
    /\ erRecvd[3].kind = "Exit"
    /\ Len(handled) = 3
    /\ handled[1].res = "Err"

\* the error bus is closed with no sentinel queued: the hook runs and every
\* sender has been dropped
BusClosed ==
    /\ sub["error_hook"] = Running
    /\ ErSenders = {}
    /\ ~ExitQueued

\* C18: once every sender of the error bus has been dropped with no
\* sentinel queued, the error hook eventually returns Ok, whatever the
\* handler answers; it returns Ok only with the bus empty and every
\* enqueued error received and handled, in order, and the Ok return invokes
\* no handler.
C18_HookEndsOkOnClose ==
    /\ BusClosed ~> (sub["error_hook"] = Done(JoinOk(OkRes)))
    /\ [](sub["error_hook"] = Done(JoinOk(OkRes)) =>
            /\ erBuf = <<>>
            /\ erRecvd = erSent
            /\ ArgsOf(FirstCalls) = erSent
            /\ ErSenders = {})
    /\ [][BusClosed => (BusClosed' \/ sub'["error_hook"] = Done(JoinOk(OkRes)))]_vars
    /\ [][(sub["error_hook"] = Running /\ sub'["error_hook"] = Done(JoinOk(OkRes))) =>
            handled' = handled]_vars

\* every sender has been dropped while the bus is full of errors that are
\* not the sentinel, and the handler has failed twice for an earlier error
C18_Witness ==
    /\ BusClosed
    /\ Len(erBuf) = ErrorChannelSize
    /\ Len(handled) = 2
    /\ handled[2].res = "Err"

\* the two config channels hold the snapshots of different RuntimeConfigs
Mismatch == acVal.id # fsVal.id

\* C19: reconfigure publishes to the action channel and to the fs channel
\* in two separate steps, no step changing both.  The channels hold the
\* snapshots of different configs only while a reconfigure is between its
\* two publishes, or after two invocations overlapped, or after an
\* invocation failed on the fs channel; invocations that ran one after the
\* other and returned Ok leave both channels with the last one's snapshot.
C19_NotAtomic ==
    /\ [][(acVal' # acVal => fsVal' = fsVal) /\ (fsVal' # fsVal => acVal' = acVal)]_vars
    /\ [](Mismatch =>
            \/ ReconfRunning # {}
            \/ rcOverlap
            \/ \E r \in ReconfCalls : rc[r].fs = "Err")
    /\ [](\A r \in ReconfCalls : rc[r].pc = "fs" =>
            (acVal = ActionData(rc[r].cfg) \/ rcOverlap))

\* two overlapping invocations have both returned Ok, the first to begin
\* returning last: the action channel holds the second's snapshot and the
\* fs channel the first's, for good
C19_Witness ==
    /\ rc[1].cfg # rc[2].cfg
    /\ rcLast = <<2, 1>>
    /\ ReconfResult(rc[1]) = "Ok"
    /\ ReconfResult(rc[2]) = "Ok"
    /\ acVal = RuntimeConfig(rc[2].cfg).action
    /\ fsVal = RuntimeConfig(rc[1].cfg).fs
    /\ Mismatch

\* a single invocation is between its two publishes: the action channel
\* holds the new snapshot, the fs channel still the old one
C19_Transient ==
    /\ ~rcOverlap
    /\ rc[1].pc = "fs"
    /\ rc[2].pc = "idle"
    /\ acVal = RuntimeConfig(rc[1].cfg).action
    /\ fsVal = RuntimeConfig(initCfg).fs
    /\ Mismatch

\* the coordination task's position, in the order it goes through them
PcRank(pc) ==
    CASE pc = "spawned" -> 0
      [] pc = "armed" -> 1
      [] pc = "released" -> 2
      [] pc = "running" -> 3
      [] pc = "done" -> 4

GatePassed == PcRank(coordPc) >= 2

\* C20: the coordination task never goes back: it enters "running" only
\* from "released", at most once.  The four subtasks are spawned together
\* in that one step, and a spawned subtask is never spawned again.  A main()
\* call made after the gate was passed still calls notify_one before it
\* panics: its release is stored as a permit that nothing consumes, and it
\* changes neither the coordination task nor any subtask.
C20_StartsAtMostOnce ==
    /\ [][PcRank(coordPc') >= PcRank(coordPc)]_vars
    /\ [][(coordPc' = "running" /\ coordPc # "running") =>
            /\ coordPc = "released"
            /\ \A w \in Subtasks : sub[w] = Unspawned /\ sub'[w] = Running]_vars
    /\ [][\A w \in Subtasks :
            /\ sub[w] # Unspawned => sub'[w] # Unspawned
            /\ sub[w].st = "done" => sub'[w] = sub[w]
            /\ (sub[w] = Unspawned /\ sub'[w] # Unspawned) => coordPc = "released"]_vars
    /\ [][\A c \in MainCalls : (GatePassed /\ mainPc[c] = "idle" /\ mainPc'[c] # "idle") =>
            /\ mainPc'[c] = "notified"
            /\ permit'
            /\ coordPc' = coordPc
            /\ sub' = sub]_vars
    /\ [][\A c \in MainCalls : mainPc'[c] = "panicked" => mainPc[c] \in {"notified", "panicked"}]_vars
    /\ [][(GatePassed /\ permit) => permit']_vars
    /\ [](GatePassed => Started)

\* two further main() calls have panicked after the start; their release
\* is held as a permit and the subtasks of the one run are running
C20_Witness ==
    /\ Cardinality(MainPanicked) = 2
    /\ coordPc = "running"
    /\ permit
    /\ \A w \in Subtasks : sub[w] = Running

====
